---- MODULE Spec2Model ----
(***************************************************************************)
(* Model of crates/noirc_evaluator/src/ssa/block.rs: the basic blocks of   *)
(* the SSA control-flow graph, their construction (first / sealed /        *)
(* unsealed / bare), graph linking, the dominated-list computation and the *)
(* breadth-first traversal between two blocks.                             *)
(*                                                                         *)
(* The IRGenerator (arena of blocks, cursors, sealed set, instruction      *)
(* creation) is a collaborator whose code is in another file; its          *)
(* operations are modelled from their description: insert_block,           *)
(* new_instruction, get_current_block_mut, try_get_block_mut, Index.       *)
(***************************************************************************)
EXTENDS Integers, Sequences, FiniteSets, TLC

\* ---------------------------------------------------------------- bounds
MaxBlocks  == 3     \* blocks the arena may hold
MaxLinks   == 1     \* calls of link_with_target in one run
MaxDomRuns == 2     \* calls of compute_dom in one run
MaxNodes   == 4     \* nodes the node arena may hold
MaxNodeId  == 2     \* node ids used as keys and values of value_map
MaxUpdates == 2     \* calls of update_variable in one run

VARIABLES
    blocks,         \* the arena: blocks[h] is the BasicBlock stored under handle h
    first_block,    \* igen.first_block
    current_block,  \* igen.current_block
    sealed_blocks,  \* igen.sealed_blocks
    nodes,          \* number of nodes (instructions) created so far
    node_op,        \* node_op[n] is the operation of node n
    panicked,       \* a call has panicked (failed lookup); the run is over
    created_by,     \* history: created_by[h] is the constructor that made block h
    last,           \* history: the last construction/linking call, its arguments and result
    n_link,         \* calls of link_with_target so far
    n_dom,          \* calls of compute_dom so far
    updates,        \* history: the update_variable calls so far, oldest first
    bfs_pc,         \* "idle", "loop" (inside bfs's while loop) or "done" (bfs returned)
    bfs_start,      \* bfs's argument start
    bfs_stop,       \* bfs's argument stop
    result,         \* bfs's local `result`
    queue           \* bfs's local `queue`

igen_vars == <<blocks, first_block, current_block, sealed_blocks, nodes, node_op>>
hist_vars == <<created_by, last, n_link, n_dom, updates>>
bfs_vars  == <<bfs_pc, bfs_start, bfs_stop, result, queue>>
vars == <<igen_vars, panicked, hist_vars, bfs_vars>>

\* ------------------------------------------------------------ data model
\* Option<T>: None is the empty sequence, Some(x) the one-element sequence.
None == << >>
Some(x) == << x >>

\* BlockId::dummy(): the handle of no stored block.
dummy == 0

BlockType == {"Normal", "ForJoin"}

\* Handles of the stored blocks: the arena hands out 1, 2, 3, ... and never
\* removes a block.
Handles(bs) == 1 .. Len(bs)

\* try_get_block_mut(h) is Some(..) exactly for the handles of stored blocks.
try_get_block_mut(bs, h) == h \in Handles(bs)

\* The handles a caller can pass: those of the stored blocks, and the dummy.
BlockIds == Handles(blocks) \cup {dummy}
OptBlockIds == {None} \cup {Some(h) : h \in BlockIds}

\* BasicBlock::new(prev, kind)
BasicBlock_new(prev, kind) ==
    [ id           |-> dummy,
      kind         |-> kind,
      predecessor  |-> << prev >>,
      left         |-> None,
      right        |-> None,
      instructions |-> << >>,
      value_map    |-> << >>,
      dominator    |-> None,
      dominated    |-> << >> ]

\* igen.insert_block(block): stores the block and sets its id to its handle.
insert_block(bs, block) == Append(bs, [block EXCEPT !.id = Len(bs) + 1])

\* igen.new_instruction(.., Nop, ..): creates node n and appends it to the
\* instructions of the block the current-block cursor `cur` refers to.
new_instruction(bs, cur, n) ==
    IF try_get_block_mut(bs, cur)
    THEN [bs EXCEPT ![cur].instructions = Append(@, n)]
    ELSE bs

\* No call is running and none has panicked: a public operation may start.
Idle == ~panicked /\ bfs_pc = "idle"

Init ==
    /\ blocks = << >>
    /\ first_block = dummy
    /\ current_block = dummy
    /\ sealed_blocks = {}
    /\ nodes = 0
    /\ node_op = << >>
    /\ panicked = FALSE
    /\ created_by = << >>
    /\ last = [op |-> "new", args |-> << >>, ret |-> None]
    /\ n_link = 0
    /\ n_dom = 0
    /\ updates = << >>
    /\ bfs_pc = "idle"
    /\ bfs_start = dummy
    /\ bfs_stop = dummy
    /\ result = << >>
    /\ queue = << >>

\* --------------------------------------------------- block construction
\* Mutant of set_dominator: the assignment is forgotten.
set_dominator_lost(bs, h, dom) == bs

\* `block.dominator = Some(dom)` on the stored block h.
set_dominator(bs, h, dom) == [bs EXCEPT ![h].dominator = Some(dom)]

\* Mutant of seal: the insertion is forgotten.
seal_none(sealed, new_id) == sealed

\* `igen.sealed_blocks.insert(new_id)`
seal(sealed, new_id) == sealed \cup {new_id}

\* Mutant of enter_block: the placeholder is created before the cursor moves.
enter_block_late(bs, cur, new_id, n) ==
    [current_block |-> new_id, blocks |-> new_instruction(bs, cur, n)]

\* Mutant of enter_block: the cursor stays where it was.
enter_block_stay(bs, cur, new_id, n) ==
    [current_block |-> cur, blocks |-> new_instruction(bs, cur, n)]

\* The end of the three constructors: the cursor moves to the new block, then
\* the placeholder Nop (node n) is created in the block the cursor refers to.
\* `cur` is the cursor before the call.
enter_block(bs, cur, new_id, n) ==
    LET moved == new_id
    IN  [current_block |-> moved, blocks |-> new_instruction(bs, moved, n)]

create_first_block ==
    /\ Idle
    /\ Len(blocks) < MaxBlocks
    /\ LET inserted == insert_block(blocks, BasicBlock_new(dummy, "Normal"))
           first_id == inserted[Len(inserted)].id
           entered  == enter_block(inserted, current_block, first_id, nodes + 1)
       IN  /\ first_block' = first_id
           /\ current_block' = entered.current_block
           /\ blocks' = entered.blocks
           /\ nodes' = nodes + 1
           /\ node_op' = Append(node_op, "Nop")
           /\ created_by' = Append(created_by, "create_first_block")
           /\ last' = [op |-> "create_first_block", args |-> << >>, ret |-> Some(first_id)]
    /\ UNCHANGED <<sealed_blocks, panicked, n_link, n_dom, updates, bfs_vars>>

new_sealed_block(kind) ==
    /\ Idle
    /\ Len(blocks) < MaxBlocks
    /\ LET cur       == current_block
           inserted  == insert_block(blocks, BasicBlock_new(current_block, kind))
           new_id    == inserted[Len(inserted)].id
           with_dom  == set_dominator(inserted, new_id, cur)
           with_left == [with_dom EXCEPT ![cur].left = Some(new_id)]
           entered   == enter_block(with_left, cur, new_id, nodes + 1)
       IN  /\ sealed_blocks' = seal(sealed_blocks, new_id)
           /\ created_by' = Append(created_by, "new_sealed_block")
           /\ last' = [op |-> "new_sealed_block", args |-> << >>, ret |-> Some(new_id)]
           /\ IF try_get_block_mut(with_dom, cur)
              THEN /\ current_block' = entered.current_block
                   /\ blocks' = entered.blocks
                   /\ nodes' = nodes + 1
                   /\ node_op' = Append(node_op, "Nop")
                   /\ UNCHANGED panicked
              ELSE \* get_current_block_mut() fails: the current block is not stored
                   /\ blocks' = with_dom
                   /\ panicked' = TRUE
                   /\ UNCHANGED <<current_block, nodes, node_op>>
    /\ UNCHANGED <<first_block, n_link, n_dom, updates, bfs_vars>>

\* Mutant of create_block_in: the new block is also made the left successor
\* of its predecessor.
create_block_in_attached(bs, cur, kind) ==
    LET inserted == insert_block(bs, BasicBlock_new(cur, kind))
    IN  IF try_get_block_mut(bs, cur)
        THEN [inserted EXCEPT ![cur].left = Some(Len(inserted))]
        ELSE inserted

\* create_block as a function of the arena: the arena with the new block.
create_block_in(bs, cur, kind) == insert_block(bs, BasicBlock_new(cur, kind))

create_block(kind) ==
    /\ Idle
    /\ Len(blocks) < MaxBlocks
    /\ blocks' = create_block_in(blocks, current_block, kind)
    /\ created_by' = Append(created_by, "create_block")
    /\ last' = [op |-> "create_block", args |-> << >>, ret |-> Some(Len(blocks'))]
    /\ UNCHANGED <<first_block, current_block, sealed_blocks, nodes, node_op, panicked,
                   n_link, n_dom, updates, bfs_vars>>

\* Mutant of attach: the flag is ignored and the left edge is always set.
attach_always_left(bs, cur, new_idx, left) ==
    [bs EXCEPT ![cur].left = Some(new_idx)]

\* `if left { cb.left = Some(new_idx) } else { cb.right = Some(new_idx) }`
attach(bs, cur, new_idx, left) ==
    IF left
    THEN [bs EXCEPT ![cur].left = Some(new_idx)]
    ELSE [bs EXCEPT ![cur].right = Some(new_idx)]

new_unsealed_block(kind, left) ==
    /\ Idle
    /\ Len(blocks) < MaxBlocks
    /\ LET cur       == current_block
           inserted  == create_block_in(blocks, current_block, kind)
           new_idx   == inserted[Len(inserted)].id
           with_dom  == set_dominator(inserted, new_idx, cur)
           with_edge == attach(with_dom, cur, new_idx, left)
           entered   == enter_block(with_edge, cur, new_idx, nodes + 1)
       IN  /\ created_by' = Append(created_by, "new_unsealed_block")
           /\ last' = [op |-> "new_unsealed_block", args |-> <<left>>,
                       ret |-> Some(new_idx)]
           /\ IF try_get_block_mut(with_dom, cur)
              THEN /\ current_block' = entered.current_block
                   /\ blocks' = entered.blocks
                   /\ nodes' = nodes + 1
                   /\ node_op' = Append(node_op, "Nop")
                   /\ UNCHANGED panicked
              ELSE \* get_current_block_mut() fails: the current block is not stored
                   /\ blocks' = with_dom
                   /\ panicked' = TRUE
                   /\ UNCHANGED <<current_block, nodes, node_op>>
    /\ UNCHANGED <<first_block, sealed_blocks, n_link, n_dom, updates,
                   bfs_vars>>

\* --------------------------------------------------------- graph linking
\* Mutant of set_edges: an absent handle does not overwrite the edge.
set_edges_keep(bs, target, left, right) ==
    [bs EXCEPT ![target].right = IF right = None THEN @ ELSE right,
               ![target].left  = IF left = None THEN @ ELSE left]

\* Mutant of set_edges: each handle is stored in the other edge.
set_edges_swapped(bs, target, left, right) ==
    [bs EXCEPT ![target].right = left, ![target].left = right]

\* `target_block.right = right; target_block.left = left;`
set_edges(bs, target, left, right) ==
    [bs EXCEPT ![target].right = right, ![target].left = left]

\* Mutant of linked: the successors' dominators are set outside the `if let`,
\* whether or not the target resolves.
linked_unguarded(bs, target, left, right) ==
    LET edges == IF try_get_block_mut(bs, target)
                 THEN set_edges(bs, target, left, right)
                 ELSE bs
        after_right == IF right # None /\ try_get_block_mut(bs, right[1])
                       THEN set_dominator(edges, right[1], target)
                       ELSE edges
        after_left  == IF left # None /\ try_get_block_mut(bs, left[1])
                       THEN set_dominator(after_right, left[1], target)
                       ELSE after_right
    IN  [blocks |-> after_left,
         panicked |-> \/ (right # None /\ ~try_get_block_mut(bs, right[1]))
                      \/ (left # None /\ ~try_get_block_mut(bs, left[1]))]

\* Mutant of linked: the blocks that were target's successors before the call
\* lose their dominator before the new ones get theirs.
linked_clearing(bs, target, left, right) ==
    IF try_get_block_mut(bs, target)
    THEN LET old == {bs[target].left, bs[target].right} \ {None}
             cleared == [h \in DOMAIN bs |->
                           IF Some(h) \in old
                           THEN [bs[h] EXCEPT !.dominator = None]
                           ELSE bs[h]]
             edges == set_edges(cleared, target, left, right)
             right_ok == right = None \/ try_get_block_mut(bs, right[1])
             left_ok  == left = None \/ try_get_block_mut(bs, left[1])
             after_right == IF right # None /\ right_ok
                            THEN set_dominator(edges, right[1], target)
                            ELSE edges
             after_left  == IF left # None /\ left_ok
                            THEN set_dominator(after_right, left[1], target)
                            ELSE after_right
         IN  IF ~right_ok
             THEN [blocks |-> edges, panicked |-> TRUE]
             ELSE IF ~left_ok
             THEN [blocks |-> after_right, panicked |-> TRUE]
             ELSE [blocks |-> after_left, panicked |-> FALSE]
    ELSE [blocks |-> bs, panicked |-> FALSE]

\* Mutant of linked: target is also pushed onto the predecessor list of each
\* successor whose dominator is set.
linked_with_pred(bs, target, left, right) ==
    IF try_get_block_mut(bs, target)
    THEN LET edges == set_edges(bs, target, left, right)
             right_ok == right = None \/ try_get_block_mut(bs, right[1])
             left_ok  == left = None \/ try_get_block_mut(bs, left[1])
             joined(arena, h) ==
                 [set_dominator(arena, h, target) EXCEPT ![h].predecessor = Append(@, target)]
             after_right == IF right # None /\ right_ok
                            THEN joined(edges, right[1])
                            ELSE edges
             after_left  == IF left # None /\ left_ok
                            THEN joined(after_right, left[1])
                            ELSE after_right
         IN  IF ~right_ok
             THEN [blocks |-> edges, panicked |-> TRUE]
             ELSE IF ~left_ok
             THEN [blocks |-> after_right, panicked |-> TRUE]
             ELSE [blocks |-> after_left, panicked |-> FALSE]
    ELSE [blocks |-> bs, panicked |-> FALSE]

\* Mutant of linked: only the left successor gets target as dominator.
linked_right_forgotten(bs, target, left, right) ==
    IF try_get_block_mut(bs, target)
    THEN LET edges == set_edges(bs, target, left, right)
             right_ok == right = None \/ try_get_block_mut(bs, right[1])
             left_ok  == left = None \/ try_get_block_mut(bs, left[1])
             after_left == IF left # None /\ left_ok
                           THEN set_dominator(edges, left[1], target)
                           ELSE edges
         IN  IF ~right_ok
             THEN [blocks |-> edges, panicked |-> TRUE]
             ELSE IF ~left_ok
             THEN [blocks |-> edges, panicked |-> TRUE]
             ELSE [blocks |-> after_left, panicked |-> FALSE]
    ELSE [blocks |-> bs, panicked |-> FALSE]

\* The body of link_with_target on the arena: the arena it leaves, and whether
\* an indexing igen[..] failed on the way.
linked(bs, target, left, right) ==
    IF try_get_block_mut(bs, target)
    THEN LET edges == set_edges(bs, target, left, right)
             right_ok == right = None \/ try_get_block_mut(bs, right[1])
             left_ok  == left = None \/ try_get_block_mut(bs, left[1])
             after_right == IF right # None /\ right_ok
                            THEN set_dominator(edges, right[1], target)
                            ELSE edges
             after_left  == IF left # None /\ left_ok
                            THEN set_dominator(after_right, left[1], target)
                            ELSE after_right
         IN  IF ~right_ok
             THEN [blocks |-> edges, panicked |-> TRUE]         \* igen[right_uw] fails
             ELSE IF ~left_ok
             THEN [blocks |-> after_right, panicked |-> TRUE]   \* igen[left_uw] fails
             ELSE [blocks |-> after_left, panicked |-> FALSE]
    ELSE [blocks |-> bs, panicked |-> FALSE]

link_with_target(target, left, right) ==
    /\ Idle
    /\ n_link < MaxLinks
    /\ n_link' = n_link + 1
    /\ last' = [op |-> "link_with_target", args |-> <<target, left, right>>, ret |-> None]
    /\ blocks' = linked(blocks, target, left, right).blocks
    /\ panicked' = linked(blocks, target, left, right).panicked
    /\ UNCHANGED <<first_block, current_block, sealed_blocks, nodes, node_op,
                   created_by, n_dom, updates, bfs_vars>>

\* -------------------------------------------------- dominator computation
\* The blocks in the order iter_blocks yields them: the arena's slot order.
iter_blocks(bs) == [i \in 1 .. Len(bs) |-> bs[i]]

\* The keys of the map dominator_link: every handle that is some block's dominator.
masters(bs) == {bs[i].dominator[1] : i \in {j \in Handles(bs) : bs[j].dominator # None}}

\* dominator_link after the first loop: for each master, the ids of the blocks
\* whose dominator it is, in iteration order.
dominator_link(bs) ==
    LET ids == [i \in 1 .. Len(bs) |-> iter_blocks(bs)[i].id]
    IN  [master \in masters(bs) |->
            SelectSeq(ids, LAMBDA b : bs[b].dominator = Some(master))]

\* Mutant of push_dominated: the master is pushed onto each slave's list.
push_dominated_swapped(bs, link) ==
    [h \in 1 .. Len(bs) |->
        IF bs[h].dominator # None
        THEN [bs[h] EXCEPT !.dominated = Append(@, bs[h].dominator[1])]
        ELSE bs[h]]

\* Mutant of push_dominated: every master's dominated list is replaced by its
\* svec (the list is cleared before it is filled).
push_dominated_fresh(bs, link) ==
    [h \in 1 .. Len(bs) |->
        IF h \in DOMAIN link
        THEN [bs[h] EXCEPT !.dominated = link[h]]
        ELSE bs[h]]

\* The second loop: every master's dominated list grows by its svec. Each
\* master is visited once, so the order of the map's iteration does not show.
push_dominated(bs, link) ==
    [h \in 1 .. Len(bs) |->
        IF h \in DOMAIN link
        THEN [bs[h] EXCEPT !.dominated = @ \o link[h]]
        ELSE bs[h]]

compute_dom ==
    /\ Idle
    /\ n_dom < MaxDomRuns
    /\ n_dom' = n_dom + 1
    /\ last' = [op |-> "compute_dom", args |-> << >>, ret |-> None]
    /\ LET link == dominator_link(blocks)
       IN  IF \A master \in DOMAIN link : try_get_block_mut(blocks, master)
           THEN blocks' = push_dominated(blocks, link) /\ UNCHANGED panicked
           ELSE \* igen[master] fails for a master that is not stored
                UNCHANGED blocks /\ panicked' = TRUE
    /\ UNCHANGED <<first_block, current_block, sealed_blocks, nodes, node_op,
                   created_by, n_link, updates, bfs_vars>>

\* ------------------------------------------------- breadth-first traversal
\* Mutant of test_and_push: the comparison with stop is dropped.
test_and_push_no_stop(block_opt, stop, rq) ==
    IF block_opt # None
    THEN LET block_id == block_opt[1]
             contains == \E i \in 1 .. Len(rq.result) : rq.result[i] = block_id
         IN  IF ~contains
             THEN [result |-> Append(rq.result, block_id),
                   queue  |-> Append(rq.queue, block_id)]
             ELSE rq
    ELSE rq

\* The closure test_and_push of bfs, on the pair of locals (result, queue).
test_and_push(block_opt, stop, rq) ==
    IF block_opt # None
    THEN LET block_id == block_opt[1]
             contains == \E i \in 1 .. Len(rq.result) : rq.result[i] = block_id
         IN  IF block_id # stop /\ ~contains
             THEN [result |-> Append(rq.result, block_id),
                   queue  |-> Append(rq.queue, block_id)]
             ELSE rq
    ELSE rq

\* Mutant of visit: the right successor is tested before the left one.
visit_right_first(block, stop, rq) ==
    test_and_push(block.left, stop, test_and_push(block.right, stop, rq))

\* Mutant of visit: the popped block is pushed back on the queue (a block is
\* enqueued again each time it is visited).
visit_requeue(block, stop, rq) ==
    LET done == test_and_push(block.right, stop, test_and_push(block.left, stop, rq))
    IN  [done EXCEPT !.queue = Append(@, block.id)]

\* `test_and_push(block.left); test_and_push(block.right);`
visit(block, stop, rq) ==
    test_and_push(block.right, stop, test_and_push(block.left, stop, rq))

\* bfs(start, stop, igen) is called: the locals are initialised.
bfs(start, stop) ==
    /\ Idle
    /\ bfs_pc' = "loop"
    /\ bfs_start' = start
    /\ bfs_stop' = stop
    /\ result' = << start >>
    /\ queue' = << start >>
    /\ UNCHANGED <<igen_vars, panicked, hist_vars>>

\* One iteration of `while !queue.is_empty()`.
bfs_loop ==
    /\ ~panicked
    /\ bfs_pc = "loop"
    /\ queue # << >>
    /\ LET front == Head(queue)
       IN  IF try_get_block_mut(blocks, front)
           THEN LET block == blocks[front]
                    popped == [result |-> result, queue |-> Tail(queue)]
                    visited == visit(block, bfs_stop, popped)
                IN  /\ result' = visited.result
                    /\ queue' = visited.queue
                    /\ UNCHANGED panicked
           ELSE \* igen[..] fails: the popped handle is not stored
                /\ queue' = Tail(queue)
                /\ panicked' = TRUE
                /\ UNCHANGED result
    /\ UNCHANGED <<igen_vars, hist_vars, bfs_pc, bfs_start, bfs_stop>>

\* The loop condition fails: bfs returns `result`.
bfs_return ==
    /\ ~panicked
    /\ bfs_pc = "loop"
    /\ queue = << >>
    /\ bfs_pc' = "done"
    /\ UNCHANGED <<igen_vars, panicked, hist_vars, bfs_start, bfs_stop, result, queue>>

\* The caller has the returned vector; bfs's locals are gone.
bfs_drop ==
    /\ ~panicked
    /\ bfs_pc = "done"
    /\ bfs_pc' = "idle"
    /\ bfs_start' = dummy
    /\ bfs_stop' = dummy
    /\ result' = << >>
    /\ queue' = << >>
    /\ UNCHANGED <<igen_vars, panicked, hist_vars>>

\* ------------------------------------------------- BasicBlock accessors
\* The NodeIds that callers pass as variables and values.
NodeIds == 1 .. MaxNodeId

\* Another instruction than the placeholder is created: the collaborator's
\* new_instruction appends it to the current block.
append_instruction ==
    /\ Idle
    /\ nodes < MaxNodes
    /\ nodes' = nodes + 1
    /\ node_op' = Append(node_op, "Other")
    /\ blocks' = new_instruction(blocks, current_block, nodes + 1)
    /\ last' = [op |-> "new_instruction", args |-> << >>, ret |-> Some(nodes + 1)]
    /\ UNCHANGED <<first_block, current_block, sealed_blocks, panicked, created_by,
                   n_link, n_dom, updates, bfs_vars>>

\* `self.value_map.get(&id).copied()`
get_current_value(block, id) ==
    IF id \in DOMAIN block.value_map THEN Some(block.value_map[id]) ELSE None

\* Mutant of update_variable: a key that is present keeps its value
\* (entry(..).or_insert(..) in place of insert).
update_variable_keep(block, old_value, new_value) ==
    [block EXCEPT !.value_map =
        [k \in DOMAIN @ \cup {old_value} |->
            IF k \in DOMAIN @ THEN @[k] ELSE new_value]]

\* `self.value_map.insert(old_value, new_value)`
update_variable(block, old_value, new_value) ==
    [block EXCEPT !.value_map =
        [k \in DOMAIN @ \cup {old_value} |->
            IF k = old_value THEN new_value ELSE @[k]]]

\* Mutant of get_first_instruction: an empty sequence yields the dummy node
\* (first().copied().unwrap_or(..) in place of the indexing).
get_first_instruction_default(block) ==
    IF block.instructions = << >>
    THEN [panicked |-> FALSE, ret |-> Some(dummy)]
    ELSE [panicked |-> FALSE, ret |-> Some(block.instructions[1])]

\* `self.instructions[0]`: the indexing fails on an empty sequence.
get_first_instruction(block) ==
    IF block.instructions = << >>
    THEN [panicked |-> TRUE, ret |-> None]
    ELSE [panicked |-> FALSE, ret |-> Some(block.instructions[1])]

\* blocks[h].update_variable(old_value, new_value) is called.
call_update_variable(h, old_value, new_value) ==
    /\ Idle
    /\ Len(updates) < MaxUpdates
    /\ blocks' = [blocks EXCEPT ![h] = update_variable(@, old_value, new_value)]
    /\ updates' = Append(updates, <<h, old_value, new_value>>)
    /\ last' = [op |-> "update_variable", args |-> <<h, old_value, new_value>>,
                ret |-> None]
    /\ UNCHANGED <<first_block, current_block, sealed_blocks, nodes, node_op, panicked,
                   created_by, n_link, n_dom, bfs_vars>>

\* blocks[h].get_current_value(id) is called.
call_get_current_value(h, id) ==
    /\ Idle
    /\ last' = [op |-> "get_current_value", args |-> <<h, id>>,
                ret |-> get_current_value(blocks[h], id)]
    /\ UNCHANGED <<igen_vars, panicked, created_by, n_link, n_dom, updates,
                   bfs_vars>>

\* blocks[h].get_first_instruction() is called.
call_get_first_instruction(h) ==
    /\ Idle
    /\ last' = [op |-> "get_first_instruction", args |-> <<h>>,
                ret |-> get_first_instruction(blocks[h]).ret]
    /\ panicked' = get_first_instruction(blocks[h]).panicked
    /\ UNCHANGED <<igen_vars, created_by, n_link, n_dom, updates, bfs_vars>>

\* ------------------------------------------------------- specifications
\* Block construction and graph linking.
Build ==
    \/ create_first_block
    \/ \E kind \in BlockType : new_sealed_block(kind)
    \/ \E kind \in BlockType, left \in BOOLEAN : new_unsealed_block(kind, left)
    \/ \E kind \in BlockType : create_block(kind)
    \/ \E target \in BlockIds, left \in OptBlockIds, right \in OptBlockIds :
          link_with_target(target, left, right)

\* The traversal: the call, the iterations of its loop, its return.
Traverse ==
    \/ \E start \in BlockIds, stop \in BlockIds : bfs(start, stop)
    \/ bfs_loop
    \/ bfs_return
    \/ bfs_drop

\* The constructors alone.
Construct ==
    \/ create_first_block
    \/ \E kind \in BlockType : new_sealed_block(kind)
    \/ \E kind \in BlockType, left \in BOOLEAN : new_unsealed_block(kind, left)
    \/ \E kind \in BlockType : create_block(kind)

\* The instructions that fill the blocks, and the accessor that reads them.
Instructions ==
    \/ append_instruction
    \/ \E h \in Handles(blocks) : call_get_first_instruction(h)

\* The accessors of value_map.
Values ==
    \/ \E h \in Handles(blocks), old_value \in NodeIds, new_value \in NodeIds :
          call_update_variable(h, old_value, new_value)
    \/ \E h \in Handles(blocks), id \in NodeIds : call_get_current_value(h, id)

Next == Build \/ compute_dom \/ Traverse \/ Instructions \/ Values

Spec == Init /\ [][Next]_vars

\* bfs reads the arena and writes only its own locals, and compute_dom writes
\* only the dominated lists, which bfs never reads. The claims about
\* construction, linking and compute_dom are checked without the traversal,
\* those about bfs without compute_dom: the same graphs are reachable.
GraphNext == Build \/ compute_dom
GraphSpec == Init /\ [][GraphNext]_vars

\* The accessors read and write only instructions and value_map, which no
\* other operation reads: the claims about them are checked on the blocks the
\* constructors make, those about instructions apart from those about
\* value_map.
InstrNext == Construct \/ Instructions
InstrSpec == Init /\ [][InstrNext]_vars

ValueNext == Construct \/ Values
ValueSpec == Init /\ [][ValueNext]_vars

\* Construction, linking, compute_dom and the traversal together.
\* Graph linking over blocks whose value_map may hold a written variable
\* (variable 1, renamed to value 2).
LinkNext ==
    \/ Build
    \/ \E h \in Handles(blocks) : call_update_variable(h, 1, 2)
LinkSpec == Init /\ [][LinkNext]_vars

CfgNext == Build \/ compute_dom \/ Traverse
CfgSpec == Init /\ [][CfgNext]_vars

BfsNext == Build \/ Traverse
BfsSpec == Init /\ [][BfsNext]_vars

\* bfs runs to completion once called: the program is single-threaded, so
\* nothing else is scheduled while its loop runs, and each iteration is taken.
BfsFairSpec == BfsSpec /\ WF_vars(bfs_loop) /\ WF_vars(bfs_return)

\* ================================================================ claims
\* The step just taken was a call of one of the constructors in `ops`: a
\* block was stored and `last` names the call.
Constructed(ops) == Len(blocks') = Len(blocks) + 1 /\ last'.op \in ops

\* The handle of the block that step created.
Created == Len(blocks')

\* How often handle h occurs in the sequence s.
Count(s, h) == Cardinality({i \in 1 .. Len(s) : s[i] = h})

\* C1: every call of new_sealed_block or new_unsealed_block creates a block
\* whose dominator is the block that was current immediately before the call.
C1_DominatorIsPreviousCurrent ==
    [][ Constructed({"new_sealed_block", "new_unsealed_block"})
        => blocks'[Created].dominator = Some(current_block) ]_vars

\* C1 witness: an unsealed block was just created after a sealed one, each
\* with the block that was current before it as dominator.
C1_Witness ==
    /\ ~panicked
    /\ Len(blocks) = 3
    /\ created_by[2] = "new_sealed_block"
    /\ last.op = "new_unsealed_block"
    /\ last.ret = Some(3)
    /\ blocks[2].dominator = Some(1)
    /\ blocks[3].dominator = Some(2)

\* C2: the sealed set holds exactly the handles of the blocks that
\* new_sealed_block created, whatever calls followed.
C2_SealedExactlySealedConstructed ==
    sealed_blocks = {h \in Handles(blocks) : created_by[h] = "new_sealed_block"}

\* C2 witness: a sealed and an unsealed block exist, and linking and the
\* dominator computation have run since.
C2_Witness ==
    /\ ~panicked
    /\ n_link >= 1
    /\ n_dom >= 1
    /\ \E a, b \in Handles(blocks) :
          /\ created_by[a] = "new_sealed_block"
          /\ created_by[b] = "new_unsealed_block"
          /\ a \in sealed_blocks
          /\ b \notin sealed_blocks

\* C3: when create_first_block, new_sealed_block or new_unsealed_block
\* returns, the block it created has a non-empty instruction sequence and the
\* instructions of the previously current block are unchanged.
C3_PlaceholderInNewBlock ==
    [][ ( /\ Constructed({"create_first_block", "new_sealed_block",
                          "new_unsealed_block"})
          /\ ~panicked' )
        => /\ blocks'[Created].instructions # << >>
           /\ current_block \in Handles(blocks)
                => blocks'[current_block].instructions
                       = blocks[current_block].instructions ]_vars

\* C3 witness: a sealed block was just created from a stored current block;
\* it holds its placeholder and the previous block holds only its own.
C3_Witness ==
    /\ ~panicked
    /\ last.op = "new_sealed_block"
    /\ last.ret = Some(2)
    /\ created_by[1] = "create_first_block"
    /\ Len(blocks[2].instructions) = 1
    /\ Len(blocks[1].instructions) = 1
    /\ blocks[1].instructions # blocks[2].instructions

\* dominated is the exact inverse of dominator: b occurs once in d.dominated
\* when d is b's dominator, and not at all otherwise.
ExactInverse(bs) ==
    \A b \in Handles(bs), d \in Handles(bs) :
        Count(bs[d].dominated, b) = IF bs[b].dominator = Some(d) THEN 1 ELSE 0

\* The graph E -> C1 -> C2 of two successive sealed constructions.
TwoSealedFromEntry(bs, by) ==
    /\ by = <<"create_first_block", "new_sealed_block", "new_sealed_block">>
    /\ bs[1].dominator = None
    /\ bs[2].dominator = Some(1)
    /\ bs[3].dominator = Some(2)

\* C4: compute_dom run once on a graph whose dominated lists are all empty
\* leaves dominated the exact inverse of dominator; on E -> C1 -> C2 it leaves
\* E.dominated = [C1] and C1.dominated = [C2].
C4_DominatedIsInverseOfDominator ==
    [][ ( /\ n_dom' = n_dom + 1
          /\ last'.op = "compute_dom"
          /\ ~panicked'
          /\ \A h \in Handles(blocks) : blocks[h].dominated = << >> )
        => /\ ExactInverse(blocks')
           /\ TwoSealedFromEntry(blocks, created_by)
                => /\ blocks'[1].dominated = << 2 >>
                   /\ blocks'[2].dominated = << 3 >>
                   /\ blocks'[3].dominated = << >> ]_vars

\* C4 witness: compute_dom has run once on E -> C1 -> C2.
C4_Witness ==
    /\ ~panicked
    /\ n_dom = 1
    /\ last.op = "compute_dom"
    /\ Len(blocks) = 3
    /\ TwoSealedFromEntry(blocks, created_by)
    /\ blocks[1].dominated = << 2 >>
    /\ blocks[2].dominated = << 3 >>

\* The step just taken was link_with_target(target, left, right).
Linked(target, left, right) ==
    /\ n_link' = n_link + 1
    /\ last'.op = "link_with_target"
    /\ last'.args = <<target, left, right>>

\* C8: when target is a stored block and link_with_target returns, target's
\* edges are the given ones (absent ones included) and every block named by
\* left or right has target as dominator, also for left = right and for a
\* successor that is target itself.
C8_LinkSetsEdgesAndDominators ==
    [][ \A target \in BlockIds, left \in OptBlockIds, right \in OptBlockIds :
          ( /\ Linked(target, left, right)
            /\ try_get_block_mut(blocks, target)
            /\ ~panicked' )
          => /\ blocks'[target].left = left
             /\ blocks'[target].right = right
             /\ \A succ \in {left, right} \ {None} :
                   /\ try_get_block_mut(blocks', succ[1])
                   /\ blocks'[succ[1]].dominator = Some(target) ]_vars

\* C8 witness: the entry block, whose left edge led to a sealed block, was
\* relinked with left absent and right the entry block itself.
C8_Witness ==
    /\ ~panicked
    /\ last.op = "link_with_target"
    /\ last.args = <<1, None, Some(1)>>
    /\ created_by = <<"create_first_block", "new_sealed_block">>
    /\ blocks[1].left = None
    /\ blocks[1].right = Some(1)
    /\ blocks[1].dominator = Some(1)

\* C9: when target is not a stored block, link_with_target changes nothing
\* and does not fail: blocks, cursors, sealed set and nodes are as before.
C9_LinkMissingTargetIsNoOp ==
    [][ \A target \in BlockIds, left \in OptBlockIds, right \in OptBlockIds :
          ( /\ Linked(target, left, right)
            /\ ~try_get_block_mut(blocks, target) )
          => /\ UNCHANGED <<blocks, first_block, current_block, sealed_blocks, nodes,
                           node_op>>
             /\ ~panicked' ]_vars

\* C9 witness: link_with_target was called with the dummy target and two
\* stored successors, whose dominators are still those of their construction.
C9_Witness ==
    /\ ~panicked
    /\ last.op = "link_with_target"
    /\ last.args = <<dummy, Some(2), Some(3)>>
    /\ Len(blocks) = 3
    /\ blocks[2].dominator = Some(1)
    /\ blocks[3].dominator = Some(2)

\* C10: create_first_block stores the entry block with an empty predecessor
\* sequence and no dominator, and sets both cursors to its handle.
C10_FirstBlockHasNoPredecessor ==
    last.op = "create_first_block"
        => /\ try_get_block_mut(blocks, last.ret[1])
           /\ blocks[last.ret[1]].predecessor = << >>
           /\ blocks[last.ret[1]].dominator = None
           /\ first_block = last.ret[1]
           /\ current_block = last.ret[1]

\* ------------------------------------------------------------ bfs claims
\* The successors of block b.
Succ(bs, b) == {h \in Handles(bs) : bs[b].left = Some(h) \/ bs[b].right = Some(h)}

\* The blocks that a path of at most k edges from start reaches, no block of
\* the path after its first being stop.
RECURSIVE ReachIn(_, _, _, _)
ReachIn(bs, start, stop, k) ==
    IF k = 0
    THEN {start}
    ELSE LET near == ReachIn(bs, start, stop, k - 1)
         IN  near \cup {c \in Handles(bs) : c # stop /\ \E q \in near : c \in Succ(bs, q)}

Reach(bs, start, stop) == ReachIn(bs, start, stop, Len(bs))

\* The edge distance from start to a block of Reach.
Dist(bs, start, stop, b) ==
    CHOOSE k \in 0 .. Len(bs) :
        /\ b \in ReachIn(bs, start, stop, k)
        /\ \A j \in 0 .. k - 1 : b \notin ReachIn(bs, start, stop, j)

\* The blocks that a path from start reaches, no block of the path, its
\* first included, being stop.
ReachAvoiding(bs, start, stop) ==
    IF start = stop THEN {} ELSE Reach(bs, start, stop)

Elements(s) == {s[i] : i \in 1 .. Len(s)}
Distinct(s) == \A i, j \in 1 .. Len(s) : s[i] = s[j] => i = j
Pos(s, x) == CHOOSE i \in 1 .. Len(s) : s[i] = x

\* The elements of the result are in breadth-first order: by non-decreasing
\* distance, and of two successors that the same block was the first to
\* reach, the left one comes first.
BreadthFirstOrder(bs, start, stop, res) ==
    /\ \A i, j \in 1 .. Len(res) :
          i < j => Dist(bs, start, stop, res[i]) <= Dist(bs, start, stop, res[j])
    /\ \A i \in 1 .. Len(res) :
          LET b == bs[res[i]]
              first_to_reach(x) ==
                  /\ x \in Elements(res) \ {start}
                  /\ \A j \in 1 .. i - 1 : x \notin Succ(bs, res[j])
          IN  ( /\ b.left # None /\ b.right # None /\ b.left # b.right
                /\ first_to_reach(b.left[1]) /\ first_to_reach(b.right[1]) )
              => Pos(res, b.left[1]) < Pos(res, b.right[1])

\* C5 as stated: the result of bfs(start, stop) on stored handles starts with
\* start, never holds stop, holds no block twice and is no longer than the
\* number of blocks.
C5_Original ==
    (bfs_pc = "done" /\ bfs_start \in Handles(blocks) /\ bfs_stop \in Handles(blocks))
        => /\ result[1] = bfs_start
           /\ bfs_stop \notin Elements(result)
           /\ Distinct(result)
           /\ Len(result) <= Len(blocks)

\* C5 amended: the result of bfs(start, stop) starts with start, holds stop
\* only when stop = start (and then only as its first element), holds no
\* block twice and is no longer than the number of blocks.
C5_BfsResultShape ==
    bfs_pc = "done"
        => /\ result[1] = bfs_start
           /\ \A i \in 1 .. Len(result) :
                 result[i] = bfs_stop => (i = 1 /\ bfs_start = bfs_stop)
           /\ Distinct(result)
           /\ Len(result) <= Len(blocks)

\* C5 witness: bfs returned at least two blocks of a graph in which stop,
\* another block than start, is a successor of a returned block that lies on
\* a cycle.
C5_Witness ==
    /\ bfs_pc = "done"
    /\ bfs_stop \in Handles(blocks)
    /\ bfs_stop # bfs_start
    /\ Len(result) >= 2
    /\ \E q \in Elements(result) :
          /\ bfs_stop \in Succ(blocks, q)
          /\ \E c \in Elements(result) : c \in Succ(blocks, q) /\ q \in Succ(blocks, c)

EnqueuedOnce ==
    /\ Distinct(result)
    /\ Len(queue) <= Len(result)
    /\ queue = SubSeq(result, Len(result) - Len(queue) + 1, Len(result))

\* C7: bfs called on a stored start block returns, cycles or not, and while
\* it runs no block is enqueued twice.
C7_BfsTerminates ==
    /\ [](bfs_pc = "loop" => EnqueuedOnce)
    /\ (bfs_pc = "loop" /\ bfs_start \in Handles(blocks)) ~> (bfs_pc = "done")

\* C7 witness: bfs returned on a graph with a cycle among the returned
\* blocks (a self-loop or a back edge).
C7_Witness ==
    /\ bfs_pc = "done"
    /\ \E a, b \in Elements(result) : b \in Succ(blocks, a) /\ a \in Succ(blocks, b)

\* The calls so far were create_first_block (E = 1), new_sealed_block (A = 2),
\* new_unsealed_block (B = 3), and then link_with_target(A, Some(B), None),
\* which returned; only traversals came after it.
EntrySealedUnsealedLinked ==
    /\ ~panicked
    /\ created_by = <<"create_first_block", "new_sealed_block", "new_unsealed_block">>
    /\ last.op = "link_with_target"
    /\ last.args = <<2, Some(3), None>>

\* C11: after create_first_block (E), new_sealed_block (A), new_unsealed_block
\* (B) and link_with_target(A, left = B, right = absent), A.left is B, B's
\* dominator is A, and bfs(E, B) returns exactly [E, A].
C11_LinkedChainThenBfs ==
    EntrySealedUnsealedLinked
        => /\ blocks[2].left = Some(3)
           /\ blocks[3].dominator = Some(2)
           /\ (bfs_pc = "done" /\ bfs_start = 1 /\ bfs_stop = 3) => result = <<1, 2>>

\* C11 witness: in that scenario bfs(E, B) has returned [E, A].
C11_Witness ==
    /\ EntrySealedUnsealedLinked
    /\ blocks[1].left = Some(2)
    /\ blocks[2].right = None
    /\ bfs_pc = "done"
    /\ bfs_start = 1
    /\ bfs_stop = 3
    /\ result = <<1, 2>>

\* C12: get_first_instruction on a block whose instruction sequence is empty
\* (a bare create_block block) fails and returns nothing, no default; on a
\* non-empty sequence it returns the earliest instruction, which is the
\* placeholder no-op for a block made by create_first_block, new_sealed_block
\* or new_unsealed_block.
C12_FirstInstructionOrFailure ==
    [][ \A h \in Handles(blocks) :
          (last'.op = "get_first_instruction" /\ last'.args = <<h>>)
          => IF blocks[h].instructions = << >>
             THEN panicked' /\ last'.ret = None
             ELSE /\ ~panicked'
                  /\ last'.ret = Some(blocks[h].instructions[1])
                  /\ \A i \in 1 .. Len(blocks[h].instructions) :
                        last'.ret[1] <= blocks[h].instructions[i]
                  /\ created_by[h] \in {"create_first_block", "new_sealed_block",
                                        "new_unsealed_block"}
                        => node_op[last'.ret[1]] = "Nop" ]_vars

\* C12 witness: get_first_instruction failed on a bare create_block block,
\* beside an entry block that holds its placeholder and one more instruction.
C12_Witness ==
    /\ panicked
    /\ last.op = "get_first_instruction"
    /\ last.args = <<2>>
    /\ last.ret = None
    /\ created_by = <<"create_first_block", "create_block">>
    /\ blocks[2].instructions = << >>
    /\ blocks[1].instructions = <<1, 2>>

\* What the calls of update_variable so far say about variable v on block h:
\* the value of the most recent update_variable(v, _) on h, nothing when v
\* was never written on h.
LastWrite(h, v) ==
    LET writes == {i \in 1 .. Len(updates) : updates[i][1] = h /\ updates[i][2] = v}
    IN  IF writes = {}
        THEN None
        ELSE Some(updates[CHOOSE i \in writes : \A j \in writes : j <= i][3])

\* C13: get_current_value(v) on a block returns the value of the most recent
\* update_variable(v, _) on that block, and not-found when v was never
\* written on it; update_variable(v, x) changes the mapping of no other
\* variable and of no other block; get_current_value changes no state.
C13_ValueMapReadsLastWrite ==
    [][ \A h \in Handles(blocks), v \in NodeIds :
          /\ (last'.op = "get_current_value" /\ last'.args = <<h, v>>)
                => /\ last'.ret = LastWrite(h, v)
                   /\ UNCHANGED <<igen_vars, panicked>>
          /\ \A x \in NodeIds :
                ( /\ Len(updates') = Len(updates) + 1
                  /\ last'.op = "update_variable"
                  /\ last'.args = <<h, v, x>> )
                => /\ get_current_value(blocks'[h], v) = Some(x)
                   /\ \A g \in Handles(blocks), w \in NodeIds :
                         (g # h \/ w # v)
                         => get_current_value(blocks'[g], w)
                                = get_current_value(blocks[g], w) ]_vars

\* C13 witness: variable 1 was written twice on the entry block, with 1 and
\* then with 2, and get_current_value(1) on it returned 2; variable 2 on it
\* and both variables on the second block were never written.
C13_Witness ==
    /\ ~panicked
    /\ last.op = "get_current_value"
    /\ last.args = <<1, 1>>
    /\ last.ret = Some(2)
    /\ updates = << <<1, 1, 1>>, <<1, 1, 2>> >>
    /\ Len(blocks) >= 2
    /\ get_current_value(blocks[1], 2) = None
    /\ get_current_value(blocks[2], 1) = None

\* C14: create_block stores exactly one new block, with predecessor =
\* [current block], no left or right successor, no dominator, empty dominated
\* and instructions, and leaves everything else as it was: both cursors, the
\* sealed set and every field of every block stored before.
C14_CreateBlockOnlyStores ==
    [][ Constructed({"create_block"})
        => /\ blocks'[Created].predecessor = << current_block >>
           /\ blocks'[Created].left = None
           /\ blocks'[Created].right = None
           /\ blocks'[Created].dominator = None
           /\ blocks'[Created].dominated = << >>
           /\ blocks'[Created].instructions = << >>
           /\ \A h \in Handles(blocks) : blocks'[h] = blocks[h]
           /\ UNCHANGED <<first_block, current_block, sealed_blocks, nodes, node_op>>
           /\ ~panicked' ]_vars

\* C14 witness: create_block was called with a sealed block current; the
\* new block names it as predecessor, and the sealed block still has its
\* dominator and placeholder and no successor.
C14_Witness ==
    /\ ~panicked
    /\ last.op = "create_block"
    /\ created_by = <<"create_first_block", "new_sealed_block", "create_block">>
    /\ current_block = 2
    /\ first_block = 1
    /\ sealed_blocks = {2}
    /\ blocks[3].predecessor = <<2>>
    /\ blocks[3].dominator = None
    /\ blocks[2].left = None
    /\ blocks[2].dominator = Some(1)
    /\ Len(blocks[2].instructions) = 1

\* create_first_block was called once, as the first constructor: the block
\* the first-block cursor refers to is the one entry block.
OneEntryBlock ==
    /\ created_by # << >>
    /\ created_by[1] = "create_first_block"
    /\ Count(created_by, "create_first_block") = 1

\* C15 as stated: a stored block has dominator = None if and only if it is
\* the entry block, the block the first-block cursor refers to.
C15_Original ==
    OneEntryBlock
        => \A h \in Handles(blocks) : (blocks[h].dominator = None) <=> (h = first_block)

\* C15, amended: a block has no dominator only if create_first_block or
\* create_block made it (every block made by new_sealed_block or
\* new_unsealed_block has one in every state), a block that has a dominator
\* never loses it, and only a link_with_target call that names a block as a
\* successor changes that block's dominator.
C15_NoDominatorOnlyFirstOrBare ==
    /\ [](\A h \in Handles(blocks) :
            blocks[h].dominator = None
                => created_by[h] \in {"create_first_block", "create_block"})
    /\ [][ \A h \in Handles(blocks) :
              /\ blocks[h].dominator # None => blocks'[h].dominator # None
              /\ blocks'[h].dominator # blocks[h].dominator
                    => /\ last'.op = "link_with_target"
                       /\ Some(h) \in {last'.args[2], last'.args[3]} ]_vars

\* C15 witness: the entry block has acquired the sealed block as dominator
\* by link_with_target(2, Some(1), None), and a bare block has none.
C15_Witness ==
    /\ ~panicked
    /\ created_by = <<"create_first_block", "new_sealed_block", "create_block">>
    /\ first_block = 1
    /\ last.op = "link_with_target"
    /\ last.args = <<2, Some(1), None>>
    /\ blocks[1].dominator = Some(2)
    /\ blocks[2].dominator = Some(1)
    /\ blocks[3].dominator = None

\* Sequence s is an initial part of sequence t.
IsPrefix(s, t) == Len(s) <= Len(t) /\ SubSeq(t, 1, Len(s)) = s

\* C16: compute_dom is not idempotent. Every run that returns keeps what the
\* dominated lists held and appends b once more to d.dominated for every
\* block b whose dominator is d at that run (so k runs over an unchanged
\* dominator assignment leave b exactly k times in d.dominated), and
\* link_with_target, which may change a block's dominator, removes nothing
\* from any dominated list: the old dominator keeps its stale entry.
C16_ComputeDomAccumulates ==
    [][ /\ (n_dom' = n_dom + 1 /\ ~panicked')
            => \A d \in Handles(blocks) :
                  /\ IsPrefix(blocks[d].dominated, blocks'[d].dominated)
                  /\ \A b \in Handles(blocks) :
                        Count(blocks'[d].dominated, b)
                            = Count(blocks[d].dominated, b)
                              + (IF blocks[b].dominator = Some(d) THEN 1 ELSE 0)
        /\ (n_link' = n_link + 1)
            => \A d \in Handles(blocks) : blocks'[d].dominated = blocks[d].dominated ]_vars

\* C16 witness: two sealed blocks were built from the entry block, compute_dom
\* ran, link_with_target(1, Some(3), None) moved block 3 under the entry
\* block, and compute_dom ran again: block 2 is twice in the entry block's
\* list, block 3 once, and block 2 keeps its stale entry for block 3.
C16_Witness ==
    /\ ~panicked
    /\ last.op = "compute_dom"
    /\ n_dom = 2
    /\ created_by = <<"create_first_block", "new_sealed_block", "new_sealed_block">>
    /\ blocks[2].dominator = Some(1)
    /\ blocks[3].dominator = Some(1)
    /\ blocks[1].dominated = <<2, 2, 3>>
    /\ blocks[2].dominated = <<3>>

\* C17: link_with_target(target, left, right) changes only target.left,
\* target.right and the dominator of the blocks named by left and right: no
\* predecessor list, instruction sequence, dominated list or value_map, no
\* cursor and not the sealed set changes, no block is stored, and the
\* dominator of every block not named (target's previous successors among
\* them) is as before.
C17_LinkChangesOnlyEdgesAndDominators ==
    [][ \A target \in BlockIds, left \in OptBlockIds, right \in OptBlockIds :
          Linked(target, left, right)
          => /\ Len(blocks') = Len(blocks)
             /\ \A h \in Handles(blocks) :
                   /\ blocks'[h].id = blocks[h].id
                   /\ blocks'[h].kind = blocks[h].kind
                   /\ blocks'[h].predecessor = blocks[h].predecessor
                   /\ blocks'[h].instructions = blocks[h].instructions
                   /\ blocks'[h].dominated = blocks[h].dominated
                   /\ blocks'[h].value_map = blocks[h].value_map
                   /\ h # target => /\ blocks'[h].left = blocks[h].left
                                    /\ blocks'[h].right = blocks[h].right
                   /\ Some(h) \notin {left, right}
                         => blocks'[h].dominator = blocks[h].dominator
             /\ UNCHANGED <<first_block, current_block, sealed_blocks, nodes, node_op>> ]_vars

\* C17 witness: link_with_target(1, Some(3), None) made block 3 the left
\* successor of the entry block while block 3's predecessor list still holds
\* block 2 only; block 2, the entry block's previous left successor, keeps
\* the entry block as dominator, and block 3 keeps its value_map.
C17_Witness ==
    /\ ~panicked
    /\ last.op = "link_with_target"
    /\ last.args = <<1, Some(3), None>>
    /\ created_by = <<"create_first_block", "new_sealed_block", "new_sealed_block">>
    /\ blocks[1].left = Some(3)
    /\ blocks[3].predecessor = <<2>>
    /\ blocks[3].dominator = Some(1)
    /\ blocks[2].dominator = Some(1)
    /\ get_current_value(blocks[3], 1) = Some(2)

\* C18 as stated: in every state, every stored successor c of every stored
\* block p has p as dominator.
C18_Original ==
    ~panicked
        => \A p \in Handles(blocks) : \A c \in Succ(blocks, p) :
              blocks[c].dominator = Some(p)

\* C18, amended: every edge p -> c that a returning constructor or
\* link_with_target call writes (a new edge, or any edge of the target of a
\* link) has c.dominator = p when the call returns, and c.dominator = p stays
\* so until a link_with_target call names c as a successor of another target.
C18_WrittenEdgeSetsDominator ==
    [][ ~panicked'
        => /\ \A p \in Handles(blocks') : \A c \in Succ(blocks', p) :
                 ( \/ ~try_get_block_mut(blocks, p)
                   \/ c \notin Succ(blocks, p)
                   \/ (n_link' = n_link + 1 /\ last'.args[1] = p) )
                 => blocks'[c].dominator = Some(p)
           /\ \A p \in Handles(blocks) : \A c \in Succ(blocks, p) :
                 (blocks[c].dominator = Some(p) /\ blocks'[c].dominator # Some(p))
                 => /\ n_link' = n_link + 1
                    /\ Some(c) \in {last'.args[2], last'.args[3]}
                    /\ last'.args[1] # p ]_vars

\* C18 witness: in a chain of two sealed blocks after the entry block,
\* link_with_target(1, Some(3), None) made block 3 the entry block's left
\* successor and set its dominator to the entry block, while block 2 still
\* has block 3 as left successor.
C18_Witness ==
    /\ ~panicked
    /\ last.op = "link_with_target"
    /\ last.args = <<1, Some(3), None>>
    /\ created_by = <<"create_first_block", "new_sealed_block", "new_sealed_block">>
    /\ blocks[1].left = Some(3)
    /\ blocks[3].dominator = Some(1)
    /\ blocks[2].left = Some(3)
    /\ blocks[2].dominator = Some(1)
    /\ blocks[1].dominated = << >>

\* The edges of the blocks other than `cur` that were stored before the step
\* are as before, and the block the step created has no successor.
OnlyEdgesOf(cur) ==
    /\ \A h \in Handles(blocks) \ {cur} :
          /\ blocks'[h].left = blocks[h].left
          /\ blocks'[h].right = blocks[h].right
    /\ blocks'[Created].left = None
    /\ blocks'[Created].right = None

\* C19: new_unsealed_block with left = true sets only the left edge of the
\* previously current block to the new block and leaves its right edge as it
\* was; with left = false it sets only the right edge and leaves the left
\* one; new_sealed_block always sets the left edge and leaves the right one.
\* In every case the new block's own left and right are None.
C19_ConstructorSetsOneEdge ==
    [][ /\ \A left \in BOOLEAN :
              ( /\ Constructed({"new_unsealed_block"})
                /\ last'.args = <<left>>
                /\ ~panicked' )
              => /\ IF left
                    THEN /\ blocks'[current_block].left = Some(Created)
                         /\ blocks'[current_block].right = blocks[current_block].right
                    ELSE /\ blocks'[current_block].right = Some(Created)
                         /\ blocks'[current_block].left = blocks[current_block].left
                 /\ OnlyEdgesOf(current_block)
        /\ (Constructed({"new_sealed_block"}) /\ ~panicked')
              => /\ blocks'[current_block].left = Some(Created)
                 /\ blocks'[current_block].right = blocks[current_block].right
                 /\ OnlyEdgesOf(current_block) ]_vars

\* C19 witness: the sealed block, whose left edge link_with_target had set to
\* the entry block, was current when new_unsealed_block(left = false) made
\* block 3: its right edge leads to block 3 and its left edge is as before.
C19_Witness ==
    /\ ~panicked
    /\ last.op = "new_unsealed_block"
    /\ last.args = <<FALSE>>
    /\ created_by = <<"create_first_block", "new_sealed_block", "new_unsealed_block">>
    /\ blocks[1].left = Some(2)
    /\ blocks[2].left = Some(1)
    /\ blocks[2].right = Some(3)
    /\ blocks[3].left = None
    /\ blocks[3].right = None
    /\ current_block = 3

\* The constructors that move the current-block cursor.
Entering == {"create_first_block", "new_sealed_block", "new_unsealed_block"}

\* The calls so far started with create_first_block.
StartedWithFirstBlock == created_by # << >> /\ created_by[1] = "create_first_block"

\* The step just taken continues, or begins, a sequence of calls that starts
\* with create_first_block.
StartsWithFirstBlock ==
    IF created_by = << >> THEN last'.op = "create_first_block" ELSE StartedWithFirstBlock

\* After a sequence that starts with create_first_block, the current-block
\* cursor is the handle of the block most recently created by one of the
\* three entering constructors.
CursorIsLastEntered ==
    StartedWithFirstBlock
        => /\ try_get_block_mut(blocks, current_block)
           /\ created_by[current_block] \in Entering
           /\ \A h \in Handles(blocks) :
                 created_by[h] \in Entering => h <= current_block

\* create_block, link_with_target, compute_dom and the steps of bfs leave
\* both cursors as they are, and only create_first_block changes the
\* first-block cursor.
CursorsKept ==
    /\ ( \/ Constructed({"create_block"})
         \/ n_link' = n_link + 1
         \/ n_dom' = n_dom + 1
         \/ bfs_vars' # bfs_vars )
         => UNCHANGED <<current_block, first_block>>
    /\ first_block' # first_block => Constructed({"create_first_block"})

====
